---- MODULE Spec2Model ----
(***************************************************************************)
(* A model of the window manager of lib/winmgr/window.c: the window tree,  *)
(* damage propagation, the paint scheduler (winmgr_update) and the         *)
(* SIGWINCH self-pipe (sigwinch_signal_handler / winmgr_resize).           *)
(*                                                                         *)
(* Windows live in an arena of MaxWin slots; a window pointer is a slot    *)
(* number and NULL is 0.  The child/next linked list of a window is the    *)
(* sequence of its children in list order.  Operators named after C        *)
(* functions take the mutable memory they touch as a record                *)
(*   [win, invalid, hook, log]                                             *)
(* (the windows, wm->invalid, the pending idle-hook request and the calls  *)
(* made to the collaborators) and return it as the function leaves it.     *)
(***************************************************************************)
EXTENDS Integers, Sequences, FiniteSets, TLC

\* ------------------------------------------------------------- bounds
MaxWin == 3         \* window slots (root included) of the full specification
MaxWinHide == 4     \* window slots of the create/show/hide specification
MaxWinResize == 2   \* window slots of the resize specification
MaxWinLoop == 2     \* window slots of the specification of the running drain
MaxWinDestroy == 4  \* window slots of the specification of window_destroy
MaxWinPos == 3      \* window slots of the specification of window_set_pos
MaxX == 2           \* columns of the widest terminal
MaxY == 1           \* rows of the tallest terminal
MaxLog == 7         \* events kept of one operation

MaxPipe == 2        \* bytes the model lets the pipe hold
MaxSig == 2         \* interrupts counted between two clearings of the guard

\* the rows and columns of the screen of the cell renderer
MaxRow == 2
MaxCol == 2

\* damage callbacks between two calls of termwin_draw
MaxReports == 3

NULL == 0
ROOT == 1           \* the slot wm->root gets: the first allocation of winmgr_init

Max(a, b) == IF a > b THEN a ELSE b

Min(a, b) == IF a < b THEN a ELSE b

Slots == 1..Max(MaxWin, Max(MaxWinHide, MaxWinResize))

\* ------------------------------------------------------------- rect
rect_set(l, t, r, b) == [left |-> l, top |-> t, right |-> r, bottom |-> b]

RectZero == rect_set(0, 0, 0, 0)

rect_offset(rc, dx, dy) ==
    rect_set(rc.left + dx, rc.top + dy, rc.right + dx, rc.bottom + dy)

rect_equal(a, b) ==
    /\ a.left = b.left
    /\ a.top = b.top
    /\ a.right = b.right
    /\ a.bottom = b.bottom

rect_empty(rc) == rc.left >= rc.right \/ rc.top >= rc.bottom

\* rect_intersect(dst, a, b): [ok |-> the return value, rc |-> *dst]
rect_intersect(a, b) ==
    LET x == rect_set(Max(a.left, b.left), Max(a.top, b.top),
                      Min(a.right, b.right), Min(a.bottom, b.bottom))
    IN  IF rect_empty(x) THEN [ok |-> FALSE, rc |-> RectZero]
        ELSE [ok |-> TRUE, rc |-> x]

rect_union(a, b) ==
    IF rect_empty(a) THEN b
    ELSE IF rect_empty(b) THEN a
    ELSE rect_set(Min(a.left, b.left), Min(a.top, b.top),
                  Max(a.right, b.right), Max(a.bottom, b.bottom))

\* ------------------------------------------------------------- state
VARIABLES
    s_winmgr,             \* s_winmgr # NULL
    windows,              \* the arena: slot -> struct window (alive or free)
    wm_invalid,           \* s_winmgr->invalid
    hook,                 \* message_hook_readable() called by this entry point
    s_sigwinch_installed,
    s_pipe_signaled,
    pipe,                 \* unread bytes in s_resize_pipe
    delivered,            \* history: interrupts handled since the guard was
                          \* last cleared (counted up to MaxSig)
    term,                 \* the size the terminal really has
    pc,                   \* where the main thread is
    op,                   \* the entry point the host called last
    log,                  \* the collaborator calls that entry point has made
    twin,                 \* struct termwin (its damage_rect)
    reported,             \* history: the rectangles termwin_damage_callback
                          \* has been given since the last termwin_draw
    drawn                 \* what the call of termwin_draw just made did

vars == <<s_winmgr, windows, wm_invalid, hook, s_sigwinch_installed,
          s_pipe_signaled, pipe, delivered, term, pc, op, log,
          twin, reported, drawn>>

Winmgr == <<s_winmgr, windows, wm_invalid, hook, s_sigwinch_installed,
            s_pipe_signaled, pipe, delivered, term, pc, op, log>>

Termwin == <<twin, reported, drawn>>

Signals == <<s_sigwinch_installed, s_pipe_signaled, pipe, delivered, term>>

Free ==
    [alive |-> FALSE, parent |-> NULL, child |-> <<>>, rc |-> RectZero,
     visible |-> FALSE, invalid |-> FALSE]

AliveIn(ws) == {i \in Slots : ws[i].alive}

\* One call to a collaborator (handler_call, ncurses): a record of one shape.
Ev(e, w, x, ok, rc, rc2) ==
    [e |-> e, w |-> w, x |-> x, ok |-> ok, rc |-> rc, rc2 |-> rc2]

Ev0(e) == Ev(e, NULL, 0, TRUE, RectZero, RectZero)

EvW(e, w) == Ev(e, w, 0, TRUE, RectZero, RectZero)

\* The log keeps its first event and the newest MaxLog - 1 after it.
LogAdd(l, e) ==
    IF Len(l) < MaxLog THEN Append(l, e)
    ELSE Append(<<l[1]>> \o SubSeq(l, 3, Len(l)), e)

Mem == [win |-> windows, invalid |-> wm_invalid, hook |-> hook, log |-> log]

Emit(m, e) == [m EXCEPT !.log = LogAdd(m.log, e)]

\* ------------------------------------------------------------- invalidation
RECURSIVE window_invalidate_rect(_, _, _)
RECURSIVE invalidate_rect_children(_, _, _)

window_invalidate_rect(m, w, rc) ==
    IF ~m.win[w].visible THEN m
    ELSE LET x == rect_intersect(m.win[w].rc, rc)
         IN  IF ~x.ok THEN m
             ELSE IF m.win[w].child # <<>>
                  THEN invalidate_rect_children(m, m.win[w].child, x.rc)
                  ELSE [m EXCEPT !.win[w].invalid = TRUE,
                                 !.invalid = TRUE,
                                 !.hook = TRUE]

\* the for loop over w->child, child->next
invalidate_rect_children(m, kids, rc) ==
    IF kids = <<>> THEN m
    ELSE invalidate_rect_children(
             window_invalidate_rect(m, Head(kids), rc), Tail(kids), rc)

RECURSIVE clip_to_parents(_, _, _)
RECURSIVE clip_to_parents_any(_, _, _)

\* clip_to_parents without the test of parent->visible
clip_to_parents_any(ws, parent, rcT) ==
    IF parent = NULL THEN [ok |-> TRUE, rc |-> rcT]
    ELSE LET x == rect_intersect(rcT, ws[parent].rc)
         IN  IF ~x.ok THEN [ok |-> FALSE, rc |-> x.rc]
             ELSE clip_to_parents_any(ws, ws[parent].parent, x.rc)

\* the for loop of window_invalidate over the parents
clip_to_parents(ws, parent, rcT) ==
    IF parent = NULL THEN [ok |-> TRUE, rc |-> rcT]
    ELSE IF ~ws[parent].visible THEN [ok |-> FALSE, rc |-> rcT]
    ELSE LET x == rect_intersect(rcT, ws[parent].rc)
         IN  IF ~x.ok THEN [ok |-> FALSE, rc |-> x.rc]
             ELSE clip_to_parents(ws, ws[parent].parent, x.rc)

window_invalidate(m, w) ==
    IF ~m.win[w].visible THEN m
    ELSE LET c == clip_to_parents(m.win, m.win[w].parent, m.win[w].rc)
         IN  IF ~c.ok THEN m ELSE window_invalidate_rect(m, w, c.rc)

\* ------------------------------------------------------------- the tree
\* malloc: the lowest free slot
NewSlot(ws) == CHOOSE i \in Slots : ~ws[i].alive /\ \A j \in 1..(i - 1) : ws[j].alive

new_window(m, parent, rc) ==
    LET w  == NewSlot(m.win)
        m1 == [m EXCEPT !.win[w] =
                  [alive |-> TRUE, parent |-> parent, child |-> <<>>,
                   rc |-> rc, visible |-> TRUE, invalid |-> FALSE]]
        m2 == IF parent # NULL
              THEN [m1 EXCEPT !.win[parent].child = Append(@, w)]
              ELSE m1
        m3 == Emit(m2, EvW("WM_CREATE", w))
    IN  window_invalidate(m3, w)

\* window_create linking the window before it looks at what newwin returned
window_create_link_first(m, parent, rc, newwin_ok) ==
    LET rcT == rect_intersect(
                   rect_offset(rc, m.win[parent].rc.left, m.win[parent].rc.top),
                   m.win[ROOT].rc).rc
        m1  == Emit(m, Ev("newwin", NULL, 0, newwin_ok, rc, RectZero))
    IN  new_window(m1, parent, rcT)

\* newwin_ok: whether newwin returns a WINDOW
window_create(m, parent, rc, newwin_ok) ==
    LET rcT == rect_intersect(
                   rect_offset(rc, m.win[parent].rc.left, m.win[parent].rc.top),
                   m.win[ROOT].rc).rc
        \* newwin(lines, cols, y, x) of the rectangle passed in, as it came
        m1  == Emit(m, Ev("newwin", NULL, 0, newwin_ok,
                          rect_set(rc.left, rc.top,
                                   rc.left + (rc.right - rc.left),
                                   rc.top + (rc.bottom - rc.top)),
                          RectZero))
    IN  IF ~newwin_ok THEN m1 ELSE new_window(m1, parent, rcT)

RECURSIVE window_destroy(_, _)
RECURSIVE window_destroy_parent_first(_, _)
RECURSIVE window_destroy_invalidating(_, _)

\* the parent whose child list holds w, as a handler finds it: NULL if none
LinkedIn(ws, w) ==
    IF ws[w].parent # NULL
       /\ \E i \in 1..Len(ws[ws[w].parent].child) : ws[ws[w].parent].child[i] = w
    THEN ws[w].parent
    ELSE NULL

\* window_destroy calling the handler of w before it destroys the children
window_destroy_parent_first(m, w) ==
    LET kids == m.win[w].child
        RECURSIVE DestroyAll(_, _)
        DestroyAll(mm, ks) ==
            IF ks = <<>> THEN mm
            ELSE DestroyAll(window_destroy_parent_first(mm, Head(ks)), Tail(ks))
        m1 == DestroyAll(Emit(m, Ev("WM_DESTROY", w, LinkedIn(m.win, w), TRUE,
                                    RectZero, RectZero)), kids)
        p  == m1.win[w].parent
        m2 == IF p # NULL
              THEN [m1 EXCEPT !.win[p].child = SelectSeq(@, LAMBDA c : c # w)]
              ELSE m1
        m3 == IF w # ROOT THEN Emit(m2, EvW("delwin", w)) ELSE m2
    IN  [m3 EXCEPT !.win[w] = Free]

\* window_destroy invalidating, in the parent, the rectangle w leaves
window_destroy_invalidating(m, w) ==
    IF m.win[w].child # <<>>
    THEN window_destroy_invalidating(
             window_destroy_invalidating(m, Head(m.win[w].child)), w)
    ELSE LET m1 == Emit(m, Ev("WM_DESTROY", w, LinkedIn(m.win, w), TRUE,
                              RectZero, RectZero))
             p  == m1.win[w].parent
             m2 == IF p # NULL
                   THEN [m1 EXCEPT !.win[p].child =
                            SelectSeq(@, LAMBDA c : c # w)]
                   ELSE m1
             m3 == IF w # ROOT THEN Emit(m2, EvW("delwin", w)) ELSE m2
             m4 == IF p # NULL
                   THEN window_invalidate_rect(m3, p, m3.win[w].rc)
                   ELSE m3
         IN  [m4 EXCEPT !.win[w] = Free]

window_destroy(m, w) ==
    IF m.win[w].child # <<>>
    THEN window_destroy(window_destroy(m, Head(m.win[w].child)), w)
    ELSE LET m1 == Emit(m, Ev("WM_DESTROY", w, LinkedIn(m.win, w), TRUE,
                              RectZero, RectZero))
             p  == m1.win[w].parent
             m2 == IF p # NULL
                   THEN [m1 EXCEPT !.win[p].child =
                            SelectSeq(@, LAMBDA c : c # w)]
                   ELSE m1
             m3 == IF w # ROOT THEN Emit(m2, EvW("delwin", w)) ELSE m2
         IN  [m3 EXCEPT !.win[w] = Free]

\* window_set_visible invalidating, on hide, the rectangle of w in the parent
window_set_visible_own_rect(m, w, visible) ==
    IF ~visible
    THEN IF m.win[w].visible
         THEN LET m1 == [m EXCEPT !.win[w].visible = FALSE]
                  p  == m.win[w].parent
              IN  IF p # NULL
                  THEN window_invalidate_rect(m1, p, m1.win[w].rc)
                  ELSE m1
         ELSE m
    ELSE IF ~m.win[w].visible
         THEN window_invalidate([m EXCEPT !.win[w].visible = TRUE], w)
         ELSE m

window_set_visible(m, w, visible) ==
    IF ~visible
    THEN IF m.win[w].visible
         THEN LET m1 == [m EXCEPT !.win[w].visible = FALSE]
                  p  == m.win[w].parent
              IN  IF p # NULL
                  THEN window_invalidate_rect(m1, p, m1.win[p].rc)
                  ELSE m1
         ELSE m
    ELSE IF ~m.win[w].visible
         THEN window_invalidate([m EXCEPT !.win[w].visible = TRUE], w)
         ELSE m

\* window_set_pos without the return for an unchanged rectangle
window_set_pos_always(m, w, rc, fail) ==
    LET cur    == m.win[w].rc
        p      == m.win[w].parent
        root   == m.win[ROOT].rc
        rc0    == IF p # NULL
                  THEN rect_offset(rc, m.win[p].rc.left, m.win[p].rc.top)
                  ELSE rc
        rc_new == IF w # ROOT THEN rect_intersect(rc0, root).rc ELSE rc0
        height_new == rc_new.bottom - rc_new.top
        width_new  == rc_new.right - rc_new.left
        moved  == rc_new.left # cur.left \/ rc_new.top # cur.top
        width_adj  == Max(0, (cur.left + width_new) - root.right)
        height_adj == Max(0, (cur.top + height_new) - root.bottom)
        pre    == moved /\ (width_adj # 0 \/ height_adj # 0)
        calls  == (IF pre
                   THEN <<Ev("wresize", w, 0, TRUE,
                             rect_set(0, 0, width_new - width_adj,
                                      height_new - height_adj), RectZero)>>
                   ELSE <<>>)
                  \o (IF moved
                      THEN <<Ev("mvwin", w, 0, TRUE,
                                rect_set(rc_new.left, rc_new.top,
                                         rc_new.left, rc_new.top), RectZero)>>
                      ELSE <<>>)
                  \o <<Ev("wresize", w, 0, TRUE,
                          rect_set(0, 0, width_new, height_new), RectZero)>>
        failed == fail \in 1..Len(calls)
        made   == IF failed
                  THEN [i \in 1..fail |->
                           IF i = fail THEN [calls[i] EXCEPT !.ok = FALSE]
                           ELSE calls[i]]
                  ELSE calls
        RECURSIVE EmitAll(_, _)
        EmitAll(mm, es) ==
            IF es = <<>> THEN mm ELSE EmitAll(Emit(mm, Head(es)), Tail(es))
        m1     == EmitAll(m, made)
        m2     == [m1 EXCEPT !.win[w].rc = rc_new]
        rc_invalid == rect_union(cur, rc_new)
        m3     == IF p # NULL
                  THEN window_invalidate_rect(m2, p, rc_invalid)
                  ELSE window_invalidate_rect(m2, w, rc_invalid)
        old_rel == IF p # NULL
                   THEN rect_offset(cur, -m.win[p].rc.left, -m.win[p].rc.top)
                   ELSE cur
        new_rel == IF p # NULL
                   THEN rect_offset(rc_new, -m.win[p].rc.left, -m.win[p].rc.top)
                   ELSE rc_new
    IN  IF failed THEN [m |-> m1, ret |-> FALSE]
        ELSE [m |-> Emit(m3, Ev("WM_POSCHANGED", w, 0, TRUE, old_rel, new_rel)),
              ret |-> TRUE]

\* window_set_pos without the intersection with the root
window_set_pos_unclipped(m, w, rc, fail) ==
    LET cur    == m.win[w].rc
        p      == m.win[w].parent
        root   == m.win[ROOT].rc
        rc0    == IF p # NULL
                  THEN rect_offset(rc, m.win[p].rc.left, m.win[p].rc.top)
                  ELSE rc
        rc_new == rc0
        height_new == rc_new.bottom - rc_new.top
        width_new  == rc_new.right - rc_new.left
        moved  == rc_new.left # cur.left \/ rc_new.top # cur.top
        width_adj  == Max(0, (cur.left + width_new) - root.right)
        height_adj == Max(0, (cur.top + height_new) - root.bottom)
        pre    == moved /\ (width_adj # 0 \/ height_adj # 0)
        calls  == (IF pre
                   THEN <<Ev("wresize", w, 0, TRUE,
                             rect_set(0, 0, width_new - width_adj,
                                      height_new - height_adj), RectZero)>>
                   ELSE <<>>)
                  \o (IF moved
                      THEN <<Ev("mvwin", w, 0, TRUE,
                                rect_set(rc_new.left, rc_new.top,
                                         rc_new.left, rc_new.top), RectZero)>>
                      ELSE <<>>)
                  \o <<Ev("wresize", w, 0, TRUE,
                          rect_set(0, 0, width_new, height_new), RectZero)>>
        failed == fail \in 1..Len(calls)
        made   == IF failed
                  THEN [i \in 1..fail |->
                           IF i = fail THEN [calls[i] EXCEPT !.ok = FALSE]
                           ELSE calls[i]]
                  ELSE calls
        RECURSIVE EmitAll(_, _)
        EmitAll(mm, es) ==
            IF es = <<>> THEN mm ELSE EmitAll(Emit(mm, Head(es)), Tail(es))
        m1     == EmitAll(m, made)
        m2     == [m1 EXCEPT !.win[w].rc = rc_new]
        rc_invalid == rect_union(cur, rc_new)
        m3     == IF p # NULL
                  THEN window_invalidate_rect(m2, p, rc_invalid)
                  ELSE window_invalidate_rect(m2, w, rc_invalid)
        old_rel == IF p # NULL
                   THEN rect_offset(cur, -m.win[p].rc.left, -m.win[p].rc.top)
                   ELSE cur
        new_rel == IF p # NULL
                   THEN rect_offset(rc_new, -m.win[p].rc.left, -m.win[p].rc.top)
                   ELSE rc_new
    IN  IF rect_equal(cur, rc0) THEN [m |-> m, ret |-> TRUE]
        ELSE IF failed THEN [m |-> m1, ret |-> FALSE]
        ELSE [m |-> Emit(m3, Ev("WM_POSCHANGED", w, 0, TRUE, old_rel, new_rel)),
              ret |-> TRUE]

\* window_set_pos writing w->rc before the backend calls
window_set_pos_write_first(m, w, rc, fail) ==
    LET cur    == m.win[w].rc
        p      == m.win[w].parent
        root   == m.win[ROOT].rc
        rc0    == IF p # NULL
                  THEN rect_offset(rc, m.win[p].rc.left, m.win[p].rc.top)
                  ELSE rc
        rc_new == IF w # ROOT THEN rect_intersect(rc0, root).rc ELSE rc0
        height_new == rc_new.bottom - rc_new.top
        width_new  == rc_new.right - rc_new.left
        moved  == rc_new.left # cur.left \/ rc_new.top # cur.top
        width_adj  == Max(0, (cur.left + width_new) - root.right)
        height_adj == Max(0, (cur.top + height_new) - root.bottom)
        pre    == moved /\ (width_adj # 0 \/ height_adj # 0)
        calls  == (IF pre
                   THEN <<Ev("wresize", w, 0, TRUE,
                             rect_set(0, 0, width_new - width_adj,
                                      height_new - height_adj), RectZero)>>
                   ELSE <<>>)
                  \o (IF moved
                      THEN <<Ev("mvwin", w, 0, TRUE,
                                rect_set(rc_new.left, rc_new.top,
                                         rc_new.left, rc_new.top), RectZero)>>
                      ELSE <<>>)
                  \o <<Ev("wresize", w, 0, TRUE,
                          rect_set(0, 0, width_new, height_new), RectZero)>>
        failed == fail \in 1..Len(calls)
        made   == IF failed
                  THEN [i \in 1..fail |->
                           IF i = fail THEN [calls[i] EXCEPT !.ok = FALSE]
                           ELSE calls[i]]
                  ELSE calls
        RECURSIVE EmitAll(_, _)
        EmitAll(mm, es) ==
            IF es = <<>> THEN mm ELSE EmitAll(Emit(mm, Head(es)), Tail(es))
        m1     == EmitAll(m, made)
        m2     == [m1 EXCEPT !.win[w].rc = rc_new]
        rc_invalid == rect_union(cur, rc_new)
        m3     == IF p # NULL
                  THEN window_invalidate_rect(m2, p, rc_invalid)
                  ELSE window_invalidate_rect(m2, w, rc_invalid)
        old_rel == IF p # NULL
                   THEN rect_offset(cur, -m.win[p].rc.left, -m.win[p].rc.top)
                   ELSE cur
        new_rel == IF p # NULL
                   THEN rect_offset(rc_new, -m.win[p].rc.left, -m.win[p].rc.top)
                   ELSE rc_new
    IN  IF rect_equal(cur, rc0) THEN [m |-> m, ret |-> TRUE]
        ELSE IF failed THEN [m |-> [m1 EXCEPT !.win[w].rc = rc_new],
                             ret |-> FALSE]
        ELSE [m |-> Emit(m3, Ev("WM_POSCHANGED", w, 0, TRUE, old_rel, new_rel)),
              ret |-> TRUE]

\* fail: which backend call of this window_set_pos returns ERR (0: none)
\* window_set_pos carrying the children of w along with its origin
window_set_pos_with_children(m, w, rc, fail) ==
    LET cur    == m.win[w].rc
        p      == m.win[w].parent
        root   == m.win[ROOT].rc
        rc0    == IF p # NULL
                  THEN rect_offset(rc, m.win[p].rc.left, m.win[p].rc.top)
                  ELSE rc
        rc_new == IF w # ROOT THEN rect_intersect(rc0, root).rc ELSE rc0
        height_new == rc_new.bottom - rc_new.top
        width_new  == rc_new.right - rc_new.left
        moved  == rc_new.left # cur.left \/ rc_new.top # cur.top
        width_adj  == Max(0, (cur.left + width_new) - root.right)
        height_adj == Max(0, (cur.top + height_new) - root.bottom)
        pre    == moved /\ (width_adj # 0 \/ height_adj # 0)
        calls  == (IF pre
                   THEN <<Ev("wresize", w, 0, TRUE,
                             rect_set(0, 0, width_new - width_adj,
                                      height_new - height_adj), RectZero)>>
                   ELSE <<>>)
                  \o (IF moved
                      THEN <<Ev("mvwin", w, 0, TRUE,
                                rect_set(rc_new.left, rc_new.top,
                                         rc_new.left, rc_new.top), RectZero)>>
                      ELSE <<>>)
                  \o <<Ev("wresize", w, 0, TRUE,
                          rect_set(0, 0, width_new, height_new), RectZero)>>
        failed == fail \in 1..Len(calls)
        made   == IF failed
                  THEN [i \in 1..fail |->
                           IF i = fail THEN [calls[i] EXCEPT !.ok = FALSE]
                           ELSE calls[i]]
                  ELSE calls
        RECURSIVE EmitAll(_, _)
        EmitAll(mm, es) ==
            IF es = <<>> THEN mm ELSE EmitAll(Emit(mm, Head(es)), Tail(es))
        m1     == EmitAll(m, made)
        dx     == rc_new.left - cur.left
        dy     == rc_new.top - cur.top
        m2     == [m1 EXCEPT !.win =
                     [v \in Slots |->
                        IF v = w THEN [m1.win[v] EXCEPT !.rc = rc_new]
                        ELSE IF m1.win[v].alive /\ m1.win[v].parent = w
                             THEN [m1.win[v] EXCEPT
                                     !.rc = rect_offset(@, dx, dy)]
                        ELSE m1.win[v]]]
        rc_invalid == rect_union(cur, rc_new)
        m3     == IF p # NULL
                  THEN window_invalidate_rect(m2, p, rc_invalid)
                  ELSE window_invalidate_rect(m2, w, rc_invalid)
        old_rel == IF p # NULL
                   THEN rect_offset(cur, -m.win[p].rc.left, -m.win[p].rc.top)
                   ELSE cur
        new_rel == IF p # NULL
                   THEN rect_offset(rc_new, -m.win[p].rc.left, -m.win[p].rc.top)
                   ELSE rc_new
    IN  IF rect_equal(cur, rc0) THEN [m |-> m, ret |-> TRUE]
        ELSE IF failed THEN [m |-> m1, ret |-> FALSE]
        ELSE [m |-> Emit(m3, Ev("WM_POSCHANGED", w, 0, TRUE, old_rel, new_rel)),
              ret |-> TRUE]

window_set_pos(m, w, rc, fail) ==
    LET cur    == m.win[w].rc
        p      == m.win[w].parent
        root   == m.win[ROOT].rc
        rc0    == IF p # NULL
                  THEN rect_offset(rc, m.win[p].rc.left, m.win[p].rc.top)
                  ELSE rc
        rc_new == IF w # ROOT THEN rect_intersect(rc0, root).rc ELSE rc0
        height_new == rc_new.bottom - rc_new.top
        width_new  == rc_new.right - rc_new.left
        moved  == rc_new.left # cur.left \/ rc_new.top # cur.top
        width_adj  == Max(0, (cur.left + width_new) - root.right)
        height_adj == Max(0, (cur.top + height_new) - root.bottom)
        pre    == moved /\ (width_adj # 0 \/ height_adj # 0)
        calls  == (IF pre
                   THEN <<Ev("wresize", w, 0, TRUE,
                             rect_set(0, 0, width_new - width_adj,
                                      height_new - height_adj), RectZero)>>
                   ELSE <<>>)
                  \o (IF moved
                      THEN <<Ev("mvwin", w, 0, TRUE,
                                rect_set(rc_new.left, rc_new.top,
                                         rc_new.left, rc_new.top), RectZero)>>
                      ELSE <<>>)
                  \o <<Ev("wresize", w, 0, TRUE,
                          rect_set(0, 0, width_new, height_new), RectZero)>>
        failed == fail \in 1..Len(calls)
        made   == IF failed
                  THEN [i \in 1..fail |->
                           IF i = fail THEN [calls[i] EXCEPT !.ok = FALSE]
                           ELSE calls[i]]
                  ELSE calls
        RECURSIVE EmitAll(_, _)
        EmitAll(mm, es) ==
            IF es = <<>> THEN mm ELSE EmitAll(Emit(mm, Head(es)), Tail(es))
        m1     == EmitAll(m, made)
        m2     == [m1 EXCEPT !.win[w].rc = rc_new]
        rc_invalid == rect_union(cur, rc_new)
        m3     == IF p # NULL
                  THEN window_invalidate_rect(m2, p, rc_invalid)
                  ELSE window_invalidate_rect(m2, w, rc_invalid)
        old_rel == IF p # NULL
                   THEN rect_offset(cur, -m.win[p].rc.left, -m.win[p].rc.top)
                   ELSE cur
        new_rel == IF p # NULL
                   THEN rect_offset(rc_new, -m.win[p].rc.left, -m.win[p].rc.top)
                   ELSE rc_new
    IN  IF rect_equal(cur, rc0) THEN [m |-> m, ret |-> TRUE]
        ELSE IF failed THEN [m |-> m1, ret |-> FALSE]
        ELSE [m |-> Emit(m3, Ev("WM_POSCHANGED", w, 0, TRUE, old_rel, new_rel)),
              ret |-> TRUE]

window_rect(ws, w) ==
    IF ws[w].parent # NULL
    THEN rect_offset(ws[w].rc, -ws[ws[w].parent].rc.left,
                     -ws[ws[w].parent].rc.top)
    ELSE ws[w].rc

\* ------------------------------------------------------------- the scheduler
RECURSIVE find_invalid(_, _)
RECURSIVE find_invalid_children(_, _)
RECURSIVE find_invalid_children_reverse(_, _)

\* the loop over the children from the last child to the first
find_invalid_children_reverse(ws, kids) ==
    IF kids = <<>> THEN NULL
    ELSE LET wT == find_invalid(ws, kids[Len(kids)])
         IN  IF wT # NULL THEN wT
             ELSE find_invalid_children_reverse(ws, SubSeq(kids, 1, Len(kids) - 1))

find_invalid(ws, w) ==
    IF ~ws[w].visible THEN NULL
    ELSE IF ws[w].child # <<>> THEN find_invalid_children(ws, ws[w].child)
    ELSE IF ws[w].invalid THEN w
    ELSE NULL

\* the for loop over w->child, child->next
find_invalid_children(ws, kids) ==
    IF kids = <<>> THEN NULL
    ELSE LET wT == find_invalid(ws, Head(kids))
         IN  IF wT # NULL THEN wT ELSE find_invalid_children(ws, Tail(kids))

\* ------------------------------------------------------------- globals
\* The statics of window.c, with the memory of the manager, as one record.
Globals ==
    [s_winmgr |-> s_winmgr, m |-> Mem,
     installed |-> s_sigwinch_installed, signaled |-> s_pipe_signaled,
     pipe |-> pipe]

NoWindows == [i \in Slots |-> Free]

winmgr_shutdown(g) ==
    IF ~g.s_winmgr THEN g
    ELSE LET m1 == IF g.m.win[ROOT].alive
                   THEN window_destroy(g.m, ROOT)
                   ELSE g.m
             \* free(wm), endwin(), s_winmgr = NULL
             g1 == [g EXCEPT !.m = Emit([m1 EXCEPT !.invalid = FALSE],
                                        Ev0("endwin")),
                             !.s_winmgr = FALSE]
         \* sigaction(old), close(s_resize_pipe[0]), close(s_resize_pipe[1])
         IN  IF g1.installed
             THEN [g1 EXCEPT !.installed = FALSE, !.pipe = 0,
                             !.m = Emit(@, Ev0("close"))]
             ELSE g1

\* winmgr_init without the return for a manager that exists
winmgr_init_again(g, size, sigaction_ok) ==
    IF FALSE THEN [g |-> g, ret |-> ROOT]
    ELSE LET m0 == [win |-> NoWindows, invalid |-> FALSE, hook |-> g.m.hook,
                    log |-> LogAdd(g.m.log, Ev0("initscr"))]
             m1 == new_window(m0, NULL, rect_set(0, 0, size.cols, size.rows))
             g1 == [g EXCEPT !.s_winmgr = TRUE, !.m = m1]
         IN  IF ~g1.installed
             THEN LET g2 == [g1 EXCEPT !.signaled = FALSE, !.pipe = 0,
                                       !.m = Emit(@, Ev0("pipe"))]
                  IN  IF ~sigaction_ok
                      THEN [g |-> winmgr_shutdown(g2), ret |-> NULL]
                      ELSE [g |-> [g2 EXCEPT !.installed = TRUE], ret |-> ROOT]
             ELSE [g |-> g1, ret |-> ROOT]

\* size: what getmaxyx(stdscr) gives; sigaction_ok: whether sigaction succeeds.
\* [g |-> the globals on return, ret |-> the window returned or NULL]
winmgr_init(g, size, sigaction_ok) ==
    IF g.s_winmgr THEN [g |-> g, ret |-> ROOT]
    ELSE LET m0 == [win |-> NoWindows, invalid |-> FALSE, hook |-> g.m.hook,
                    log |-> LogAdd(g.m.log, Ev0("initscr"))]
             m1 == new_window(m0, NULL, rect_set(0, 0, size.cols, size.rows))
             g1 == [g EXCEPT !.s_winmgr = TRUE, !.m = m1]
         IN  IF ~g1.installed
             THEN LET g2 == [g1 EXCEPT !.signaled = FALSE, !.pipe = 0,
                                       !.m = Emit(@, Ev0("pipe"))]
                  IN  IF ~sigaction_ok
                      THEN [g |-> winmgr_shutdown(g2), ret |-> NULL]
                      ELSE [g |-> [g2 EXCEPT !.installed = TRUE], ret |-> ROOT]
             ELSE [g |-> g1, ret |-> ROOT]

\* sigwinch_signal_handler setting the guard without writing to the pipe
sigwinch_signal_handler_silent(g) ==
    IF g.installed
    THEN [g EXCEPT !.signaled = TRUE]
    ELSE g

\* sigwinch_signal_handler without the test of s_pipe_signaled
sigwinch_signal_handler_unguarded(g) ==
    IF g.installed
    THEN [g EXCEPT !.pipe = @ + 1, !.signaled = TRUE]
    ELSE g

sigwinch_signal_handler(g) ==
    IF g.installed
    THEN IF ~g.signaled
         THEN [g EXCEPT !.pipe = @ + 1, !.signaled = TRUE]
         ELSE g
    ELSE g

\* ------------------------------------------------------------- the cell renderer
\* VTermRect: rows start_row..end_row-1, columns start_col..end_col-1
VTermRectZero ==
    [start_row |-> 0, end_row |-> 0, start_col |-> 0, end_col |-> 0]

\* the termwin as termwin_init leaves it
termwin_init == [damage_rect |-> VTermRectZero]

\* rows and columns of twin->win, border included
getmaxy == MaxRow + 2
getmaxx == MaxCol + 2

termwin_damage_callback(tw, rect) ==
    IF tw.damage_rect.end_col # 0 \/ tw.damage_rect.end_row # 0
    THEN [tw EXCEPT !.damage_rect =
            [start_col |-> Min(tw.damage_rect.start_col, rect.start_col),
             start_row |-> Min(tw.damage_rect.start_row, rect.start_row),
             end_col   |-> Max(tw.damage_rect.end_col, rect.end_col),
             end_row   |-> Max(tw.damage_rect.end_row, rect.end_row)]]
    ELSE [tw EXCEPT !.damage_rect = rect]

NoDraw == [called |-> FALSE, ret |-> 0, cells |-> {}, border |-> FALSE]

\* [twin, drawn |-> the return value, the cells given to termwin_drawcell and
\* whether draw_border was called]
termwin_draw(tw) ==
    IF tw.damage_rect.end_col # 0 \/ tw.damage_rect.end_row # 0
    THEN LET maxy   == getmaxy - 2
             maxx   == getmaxx - 2
             endrow == Min(maxy, tw.damage_rect.end_row)
             endcol == Min(maxx, tw.damage_rect.end_col)
             border == \/ tw.damage_rect.start_row = 0
                       \/ tw.damage_rect.start_col = 0
                       \/ endrow > maxy
                       \/ endcol > maxx
             cells  == {<<row, col>> \in
                          (tw.damage_rect.start_row..(endrow - 1))
                          \X (tw.damage_rect.start_col..(endcol - 1)) : TRUE}
         IN  [twin  |-> [tw EXCEPT !.damage_rect = VTermRectZero],
              drawn |-> [called |-> TRUE, ret |-> 1, cells |-> cells,
                         border |-> border]]
    ELSE [twin  |-> tw,
          drawn |-> [called |-> TRUE, ret |-> 0, cells |-> {},
                     border |-> FALSE]]

\* ------------------------------------------------------------- inputs
TermSizes == [cols : 1..MaxX, rows : 1..MaxY]

\* The rectangles the host passes in: not empty, up to one column off screen.
InputRects ==
    {rect_set(l, t, r, b) : l \in 0..MaxX, r \in 1..(MaxX + 1),
                            t \in 0..(MaxY - 1), b \in 1..MaxY}
    \ {rc \in [left : 0..MaxX, right : 1..(MaxX + 1),
               top : 0..(MaxY - 1), bottom : 1..MaxY] : rect_empty(rc)}

Op(name, w, rc, flag) == [name |-> name, w |-> w, rc |-> rc, flag |-> flag]

NoOp == Op("none", NULL, RectZero, FALSE)

\* ------------------------------------------------------------- actions
Init ==
    /\ s_winmgr = FALSE
    /\ windows = NoWindows
    /\ wm_invalid = FALSE
    /\ hook = FALSE
    /\ s_sigwinch_installed = FALSE
    /\ s_pipe_signaled = FALSE
    /\ pipe = 0
    /\ delivered = 0
    /\ term = [cols |-> MaxX, rows |-> MaxY]
    /\ pc = "idle"
    /\ op = NoOp
    /\ log = <<>>
    /\ twin = termwin_init
    /\ reported = {}
    /\ drawn = NoDraw

SetMem(m) ==
    /\ windows' = m.win
    /\ wm_invalid' = m.invalid
    /\ hook' = m.hook
    /\ log' = m.log

SetGlobals(g) ==
    /\ s_winmgr' = g.s_winmgr
    /\ SetMem(g.m)
    /\ s_sigwinch_installed' = g.installed
    /\ s_pipe_signaled' = g.signaled
    /\ pipe' = g.pipe

\* What an entry point finds: nothing logged, no wake-up requested yet.
Fresh == Mem

\* The entry point returns to the host: pc "done" is the moment of the return,
\* where op, log and hook tell what the call was and did; "idle" is the host
\* between two calls.
HostReturn ==
    /\ pc = "done"
    /\ pc' = "idle"
    /\ op' = NoOp
    /\ log' = <<>>
    /\ hook' = FALSE
    /\ UNCHANGED <<s_winmgr, windows, wm_invalid, Signals>>
    /\ UNCHANGED Termwin

InitCall ==
    /\ pc = "idle"
    /\ \E sigaction_ok \in BOOLEAN :
          LET r == winmgr_init([Globals EXCEPT !.m = Fresh], term, sigaction_ok)
          IN  /\ SetGlobals(r.g)
              /\ op' = Op("winmgr_init", r.ret, RectZero, sigaction_ok)
              /\ delivered' = IF s_winmgr \/ s_sigwinch_installed
                              THEN delivered ELSE 0
    /\ pc' = "done"
    /\ UNCHANGED term
    /\ UNCHANGED Termwin

ShutdownCall ==
    /\ pc = "idle"
    /\ SetGlobals(winmgr_shutdown([Globals EXCEPT !.m = Fresh]))
    /\ op' = Op("winmgr_shutdown", NULL, RectZero, FALSE)
    /\ pc' = "done"
    /\ UNCHANGED <<delivered, term>>
    /\ UNCHANGED Termwin

CreateCall(maxw) ==
    /\ pc = "idle"
    /\ s_winmgr
    /\ Cardinality(AliveIn(windows)) < maxw
    /\ \E parent \in AliveIn(windows), rc \in InputRects, newwin_ok \in BOOLEAN :
          /\ SetMem(window_create(Fresh, parent, rc, newwin_ok))
          /\ op' = Op("window_create", parent, rc, newwin_ok)
    /\ pc' = "done"
    /\ UNCHANGED <<s_winmgr, Signals>>
    /\ UNCHANGED Termwin

DestroyCall ==
    /\ pc = "idle"
    /\ s_winmgr
    /\ \E w \in AliveIn(windows) \ {ROOT} :
          /\ SetMem(window_destroy(Fresh, w))
          /\ op' = Op("window_destroy", w, RectZero, FALSE)
    /\ pc' = "done"
    /\ UNCHANGED <<s_winmgr, Signals>>
    /\ UNCHANGED Termwin

SetVisibleCall ==
    /\ pc = "idle"
    /\ s_winmgr
    /\ \E w \in AliveIn(windows), visible \in BOOLEAN :
          /\ SetMem(window_set_visible(Fresh, w, visible))
          /\ op' = Op("window_set_visible", w, RectZero, visible)
    /\ pc' = "done"
    /\ UNCHANGED <<s_winmgr, Signals>>
    /\ UNCHANGED Termwin

InvalidateCall ==
    /\ pc = "idle"
    /\ s_winmgr
    /\ \E w \in AliveIn(windows) :
          /\ SetMem(window_invalidate(Fresh, w))
          /\ op' = Op("window_invalidate", w, RectZero, FALSE)
    /\ pc' = "done"
    /\ UNCHANGED <<s_winmgr, Signals>>
    /\ UNCHANGED Termwin

\* The host moves and sizes the windows it created; the root follows the
\* terminal through winmgr_resize.
SetPosCall ==
    /\ pc = "idle"
    /\ s_winmgr
    /\ \E w \in AliveIn(windows) \ {ROOT}, rc \in InputRects, fail \in 0..3 :
          LET r == window_set_pos(Fresh, w, rc, fail)
          IN  /\ SetMem(r.m)
              /\ op' = Op("window_set_pos", w, rc, r.ret)
    /\ pc' = "done"
    /\ UNCHANGED <<s_winmgr, Signals>>
    /\ UNCHANGED Termwin

\* window_set_pos on any window, the root included.
SetPosAnyCall ==
    /\ pc = "idle"
    /\ s_winmgr
    /\ \E w \in AliveIn(windows), rc \in InputRects, fail \in 0..3 :
          LET r == window_set_pos(Fresh, w, rc, fail)
          IN  /\ SetMem(r.m)
              /\ op' = Op("window_set_pos", w, rc, r.ret)
    /\ pc' = "done"
    /\ UNCHANGED <<s_winmgr, Signals>>
    /\ UNCHANGED Termwin

\* winmgr_update() is entered: by the host, or by winmgr_proc on MM_READABLE.
UpdateCall ==
    /\ pc = "idle"
    /\ s_winmgr
    /\ pc' = "update"
    /\ op' = Op("winmgr_update", NULL, RectZero, wm_invalid)
    /\ log' = <<Ev("winmgr_update", NULL, 0, wm_invalid, RectZero, RectZero)>>
    /\ hook' = hook
    /\ UNCHANGED <<s_winmgr, windows, wm_invalid, Signals>>
    /\ UNCHANGED Termwin

\* The WM_PAINT handler of w, which may call window_invalidate(target).
paint_handler(m, w, target) ==
    LET m1 == Emit(m, Ev("WM_PAINT", w, target, TRUE, RectZero, RectZero))
    IN  IF target = NULL THEN m1 ELSE window_invalidate(m1, target)

\* winmgr_update_step without "w->invalid = 0"
winmgr_update_step_noclear(m, target) ==
    IF ~m.invalid THEN [m |-> m, done |-> TRUE]
    ELSE LET w == find_invalid(m.win, ROOT)
         IN  IF w # NULL
             THEN [m |-> paint_handler(m, w, target), done |-> FALSE]
             ELSE [m |-> [Emit(m, Ev0("doupdate")) EXCEPT !.invalid = FALSE],
                   done |-> FALSE]

\* winmgr_update_step with doupdate() after every wnoutrefresh too
winmgr_update_step_commit_each(m, target) ==
    IF ~m.invalid THEN [m |-> m, done |-> TRUE]
    ELSE LET w == find_invalid(m.win, ROOT)
         IN  IF w # NULL
             THEN [m |-> Emit(paint_handler(
                                  [m EXCEPT !.win[w].invalid = FALSE],
                                  w, target),
                              Ev0("doupdate")),
                   done |-> FALSE]
             ELSE [m |-> [Emit(m, Ev0("doupdate")) EXCEPT !.invalid = FALSE],
                   done |-> FALSE]

\* winmgr_update_step with "w->invalid = 0" after handler_call
winmgr_update_step_clear_late(m, target) ==
    IF ~m.invalid THEN [m |-> m, done |-> TRUE]
    ELSE LET w == find_invalid(m.win, ROOT)
         IN  IF w # NULL
             THEN [m |-> [paint_handler(m, w, target)
                             EXCEPT !.win[w].invalid = FALSE],
                   done |-> FALSE]
             ELSE [m |-> [Emit(m, Ev0("doupdate")) EXCEPT !.invalid = FALSE],
                   done |-> FALSE]

\* One test of the while condition of winmgr_update and, when it holds, one
\* pass through the loop body.  done: the loop has been left.
winmgr_update_step(m, target) ==
    IF ~m.invalid THEN [m |-> m, done |-> TRUE]
    ELSE LET w == find_invalid(m.win, ROOT)
         IN  IF w # NULL
             THEN [m |-> paint_handler([m EXCEPT !.win[w].invalid = FALSE],
                                       w, target),
                   done |-> FALSE]
             ELSE [m |-> [Emit(m, Ev0("doupdate")) EXCEPT !.invalid = FALSE],
                   done |-> FALSE]

\* targets: the windows a paint handler may invalidate
UpdateStep(targets) ==
    /\ pc = "update"
    /\ \E target \in targets \cup {NULL} :
          LET r == winmgr_update_step(Mem, target)
          IN  /\ SetMem(r.m)
              /\ pc' = IF r.done THEN "done" ELSE "update"
    /\ UNCHANGED <<s_winmgr, Signals, op>>
    /\ UNCHANGED Termwin

\* SIGWINCH: the terminal has taken a size (perhaps the one it had).
Sigwinch ==
    /\ \E size \in TermSizes :
          /\ term' = size
          /\ LET g == sigwinch_signal_handler(Globals)
             IN  /\ g.pipe <= MaxPipe
                 /\ s_pipe_signaled' = g.signaled
                 /\ pipe' = g.pipe
    /\ delivered' = IF s_sigwinch_installed
                    THEN Min(delivered + 1, MaxSig) ELSE delivered
    /\ UNCHANGED <<s_winmgr, windows, wm_invalid, hook, s_sigwinch_installed,
                   pc, op, log>>
    /\ UNCHANGED Termwin

\* winmgr_resize() is entered: the test of the guard.
ResizeTest ==
    /\ pc = "idle"
    /\ s_winmgr
    /\ pc' = IF s_sigwinch_installed /\ s_pipe_signaled
             THEN "resize_read" ELSE "resize_query"
    /\ op' = Op("winmgr_resize", NULL, RectZero, FALSE)
    /\ UNCHANGED <<s_winmgr, windows, wm_invalid, hook, log, Signals>>
    /\ UNCHANGED Termwin

\* read(s_resize_pipe[0], &b, 1): blocks while the pipe is empty
ResizeRead ==
    /\ pc = "resize_read"
    /\ pipe > 0
    /\ pipe' = pipe - 1
    /\ pc' = "resize_clear"
    /\ UNCHANGED <<s_winmgr, windows, wm_invalid, hook, s_sigwinch_installed,
                   s_pipe_signaled, delivered, term, op, log>>
    /\ UNCHANGED Termwin

ResizeClear ==
    /\ pc = "resize_clear"
    /\ s_pipe_signaled' = FALSE
    /\ delivered' = 0
    /\ pc' = "resize_query"
    /\ UNCHANGED <<s_winmgr, windows, wm_invalid, hook, s_sigwinch_installed,
                   pipe, term, op, log>>
    /\ UNCHANGED Termwin

\* winmgr_resize_query without the comparison of the sizes
winmgr_resize_query_always(m, size, ioctl_ok, fail) ==
    LET m1 == Emit(m, Ev("ioctl", NULL, 0, ioctl_ok,
                         rect_set(0, 0, size.cols, size.rows), RectZero))
        m2 == Emit(m1, Ev("resizeterm", NULL, 0, TRUE,
                          rect_set(0, 0, size.cols, size.rows), RectZero))
        r  == window_set_pos(m2, ROOT,
                             rect_set(0, 0, size.cols, size.rows), fail)
    IN  IF ~ioctl_ok THEN [m |-> m1, updating |-> FALSE]
        ELSE [m |-> Emit(r.m, Ev("winmgr_update", NULL, 0, r.m.invalid,
                                 RectZero, RectZero)),
              updating |-> TRUE]

\* winmgr_resize_query without the call of winmgr_update
winmgr_resize_query_lazy(m, size, ioctl_ok, fail) ==
    LET m1     == Emit(m, Ev("ioctl", NULL, 0, ioctl_ok,
                             rect_set(0, 0, size.cols, size.rows), RectZero))
        width  == m.win[ROOT].rc.right - m.win[ROOT].rc.left
        height == m.win[ROOT].rc.bottom - m.win[ROOT].rc.top
        m2     == Emit(m1, Ev("resizeterm", NULL, 0, TRUE,
                              rect_set(0, 0, size.cols, size.rows), RectZero))
        r      == window_set_pos(m2, ROOT,
                                 rect_set(0, 0, size.cols, size.rows), fail)
    IN  IF ~ioctl_ok THEN [m |-> m1, updating |-> FALSE]
        ELSE IF width = size.cols /\ height = size.rows
             THEN [m |-> m1, updating |-> FALSE]
        ELSE [m |-> r.m, updating |-> FALSE]

\* The rest of winmgr_resize up to its call of winmgr_update.
\* size: what TIOCGWINSZ reports; ioctl_ok: whether the ioctl succeeds;
\* fail: the backend call of window_set_pos that fails (0: none).
\* [m, updating |-> winmgr_update has been called]
winmgr_resize_query(m, size, ioctl_ok, fail) ==
    LET m1     == Emit(m, Ev("ioctl", NULL, 0, ioctl_ok,
                             rect_set(0, 0, size.cols, size.rows), RectZero))
        width  == m.win[ROOT].rc.right - m.win[ROOT].rc.left
        height == m.win[ROOT].rc.bottom - m.win[ROOT].rc.top
        m2     == Emit(m1, Ev("resizeterm", NULL, 0, TRUE,
                              rect_set(0, 0, size.cols, size.rows), RectZero))
        r      == window_set_pos(m2, ROOT,
                                 rect_set(0, 0, size.cols, size.rows), fail)
    IN  IF ~ioctl_ok THEN [m |-> m1, updating |-> FALSE]
        ELSE IF width = size.cols /\ height = size.rows
             THEN [m |-> m1, updating |-> FALSE]
        ELSE [m |-> Emit(r.m, Ev("winmgr_update", NULL, 0, r.m.invalid,
                                 RectZero, RectZero)),
              updating |-> TRUE]

ResizeQuery ==
    /\ pc = "resize_query"
    /\ \E ioctl_ok \in BOOLEAN, fail \in 0..3 :
          LET r == winmgr_resize_query(Mem, term, ioctl_ok, fail)
          IN  /\ SetMem(r.m)
              /\ pc' = IF r.updating THEN "update" ELSE "done"
    /\ UNCHANGED <<s_winmgr, Signals, op>>
    /\ UNCHANGED Termwin

\* ------------------------------------------------------------- specifications
\* Every entry point of the window tree and the scheduler, with paint handlers
\* that only draw.  The terminal keeps its size.
Next ==
    \/ InitCall
    \/ ShutdownCall
    \/ CreateCall(MaxWin)
    \/ DestroyCall
    \/ SetVisibleCall
    \/ InvalidateCall
    \/ SetPosCall
    \/ UpdateCall
    \/ UpdateStep({})
    \/ HostReturn

Spec == Init /\ [][Next]_vars

\* The scheduler with paint handlers that may invalidate any window while they
\* draw.
DrainStep == UpdateStep(AliveIn(windows))

NextDrain ==
    \/ InitCall
    \/ CreateCall(MaxWin)
    \/ SetVisibleCall
    \/ UpdateCall
    \/ DrainStep
    \/ HostReturn

SpecDrain == Init /\ [][NextDrain]_vars

\* The same in a tree of a root and one child, for the progress of the loop.
\* Once winmgr_update is running nothing stops its loop: weak fairness of the
\* loop step.
NextLoop ==
    \/ InitCall
    \/ CreateCall(MaxWinLoop)
    \/ SetVisibleCall
    \/ UpdateCall
    \/ DrainStep
    \/ HostReturn

SpecLoop == Init /\ [][NextLoop]_vars /\ WF_vars(DrainStep)

\* Creating, painting, showing and hiding in a deeper tree.
NextHide ==
    \/ InitCall
    \/ CreateCall(MaxWinHide)
    \/ SetVisibleCall
    \/ UpdateCall
    \/ UpdateStep({})
    \/ HostReturn

SpecHide == Init /\ [][NextHide]_vars

\* The resize path: SIGWINCH at any point of the main thread, winmgr_resize
\* step by step, over a small tree.
NextResize ==
    \/ InitCall
    \/ ShutdownCall
    \/ CreateCall(MaxWinResize)
    \/ SetVisibleCall
    \/ UpdateCall
    \/ UpdateStep({})
    \/ Sigwinch
    \/ ResizeTest
    \/ ResizeRead
    \/ ResizeClear
    \/ ResizeQuery
    \/ HostReturn

SpecResize == Init /\ [][NextResize]_vars

\* Moving and sizing every window, the root included, between drains.
NextPos ==
    \/ InitCall
    \/ CreateCall(MaxWinPos)
    \/ SetPosAnyCall
    \/ UpdateCall
    \/ UpdateStep({})
    \/ HostReturn

SpecPos == Init /\ [][NextPos]_vars

\* Building trees three levels deep and destroying subtrees of them.
NextDestroy ==
    \/ InitCall
    \/ CreateCall(MaxWinDestroy)
    \/ DestroyCall
    \/ HostReturn

SpecDestroy == Init /\ [][NextDestroy]_vars

\* The resize path with a host that calls winmgr_resize whenever the
\* descriptor is readable, and a main thread that goes on once it is inside
\* winmgr_resize or winmgr_update and returns to its loop.
ResizePoll == pipe >= 1 /\ ResizeTest

MainThreadStep ==
    ResizeRead \/ ResizeClear \/ ResizeQuery \/ UpdateStep({}) \/ HostReturn

SpecResizeFair ==
    Init /\ [][NextResize]_vars
         /\ SF_vars(ResizePoll) /\ WF_vars(MainThreadStep)

\* The rectangles the terminal emulator reports: inside the screen, start not
\* after end in either direction.
DamageRects ==
    {rect \in [start_row : 0..MaxRow, end_row : 0..MaxRow,
               start_col : 0..MaxCol, end_col : 0..MaxCol] :
        rect.start_row <= rect.end_row /\ rect.start_col <= rect.end_col}

DamageCall ==
    /\ \E rect \in DamageRects :
          /\ Cardinality(reported \cup {rect}) <= MaxReports
          /\ twin' = termwin_damage_callback(twin, rect)
          /\ reported' = reported \cup {rect}
    /\ drawn' = NoDraw
    /\ UNCHANGED Winmgr

DrawCall ==
    /\ LET r == termwin_draw(twin)
       IN  /\ twin' = r.twin
           /\ drawn' = r.drawn
    /\ reported' = {}
    /\ UNCHANGED Winmgr

\* The cell renderer between the terminal emulator and its drawing loop.
NextDamage ==
    \/ DamageCall
    \/ DrawCall

SpecDamage == Init /\ [][NextDamage]_vars

\* ------------------------------------------------------------- vocabulary
RECURSIVE Ancestors(_, _)

Ancestors(ws, w) ==
    IF ws[w].parent = NULL THEN {}
    ELSE {ws[w].parent} \cup Ancestors(ws, ws[w].parent)

IsLeaf(ws, w) == ws[w].alive /\ ws[w].child = <<>>

\* w is visible and so is every ancestor of it
Shown(ws, w) == ws[w].visible /\ \A a \in Ancestors(ws, w) : ws[a].visible

\* the leaves a search from the root has to find
InvalidLeaves(ws) ==
    {w \in AliveIn(ws) : IsLeaf(ws, w) /\ ws[w].invalid /\ Shown(ws, w)}

Events(l, e) == {i \in 1..Len(l) : l[i].e = e}

LastIs(l, e) == l # <<>> /\ l[Len(l)].e = e

Returned(name) == pc = "done" /\ op.name = name

\* ------------------------------------------------------------- C1
\* C1: in every reachable state a window that has children has its invalid
\* flag false.
C1_LeafOnlyInvalid ==
    \A w \in AliveIn(windows) :
        windows[w].child # <<>> => ~windows[w].invalid

\* ------------------------------------------------------------- C2
\* C2: when create, destroy, setPosition, set-visible, invalidate or a drain
\* has returned, the aggregate invalid flag is true exactly when some leaf that
\* is visible, with every ancestor visible, carries the invalid flag.
C2_AggregateIffInvalidLeaf ==
    (/\ pc = "done"
     /\ op.name \in {"window_create", "window_destroy", "window_set_pos",
                     "window_set_visible", "window_invalidate",
                     "winmgr_update"})
    => (wm_invalid <=> InvalidLeaves(windows) # {})

\* ------------------------------------------------------------- C3
\* the paint handler that ran last invalidated a window
HandlerInvalidated ==
    pc = "update" /\ LastIs(log, "WM_PAINT") /\ log[Len(log)].x # NULL

\* C3: a drain always terminates, even if paint handlers invalidate leaves
\* (the leaf being painted included) while it runs.
C3_DrainTerminates == (pc = "update") ~> (pc = "done")

\* no invalid leaf survives two consecutive searches: a window painted twice in
\* one drain was invalidated by a paint handler in between
NoRepaintUnlessReinvalidated ==
    (pc \in {"update", "done"} /\ Len(log) < MaxLog)
    => \A i, j \in Events(log, "WM_PAINT") :
          (i < j /\ log[i].w = log[j].w)
          => \E k \in i..(j - 1) : log[k].e = "WM_PAINT" /\ log[k].x # NULL

\* C3, amended: a drain that is running returns, or a paint handler
\* invalidates a window once more: it terminates as soon as the handlers stop
\* invalidating, since no leaf is painted twice without a handler invalidating
\* in between.
C3_DrainTerminatesUnlessReinvalidated ==
    /\ (pc = "update") ~> (pc = "done" \/ HandlerInvalidated)
    /\ []NoRepaintUnlessReinvalidated

\* A drain has returned in which a paint handler invalidated a window.
C3_Witness ==
    /\ Returned("winmgr_update")
    /\ LastIs(log, "doupdate")
    /\ \E i \in Events(log, "WM_PAINT") : log[i].x # NULL

\* ------------------------------------------------------------- C4
\* C4: every invocation of winmgr_update issues exactly one doupdate, as its
\* last action, whatever the aggregate invalid flag is on entry.
C4_ExactlyOneCommit ==
    Returned("winmgr_update")
    => Cardinality(Events(log, "doupdate")) = 1 /\ LastIs(log, "doupdate")

\* C4, amended: an invocation entered with the aggregate flag set issues
\* exactly one doupdate, as its last action, however many leaves it paints;
\* one entered with the flag clear paints nothing and issues none.
C4_OneCommitIffInvalidOnEntry ==
    Returned("winmgr_update")
    => IF op.flag
       THEN Cardinality(Events(log, "doupdate")) = 1 /\ LastIs(log, "doupdate")
       ELSE Events(log, "doupdate") = {} /\ Events(log, "WM_PAINT") = {}

\* A drain has returned that painted two leaves before its commit.
C4_Witness ==
    /\ Returned("winmgr_update")
    /\ op.flag
    /\ Cardinality(Events(log, "WM_PAINT")) >= 2
    /\ LastIs(log, "doupdate")

\* ------------------------------------------------------------- C5
\* the leaves window_invalidate(w) marks in the tree ws
MarkedBy(ws, w) ==
    LET clean == [i \in Slots |-> [ws[i] EXCEPT !.invalid = FALSE]]
        m     == window_invalidate([win |-> clean, invalid |-> FALSE,
                                    hook |-> FALSE, log |-> <<>>], w)
    IN  {i \in Slots : m.win[i].invalid}

\* C5: when a drain has issued its commit no leaf that is visible, with every
\* ancestor visible, carries the invalid flag; and every leaf a paint handler
\* invalidated during the drain (the painted leaf itself included) has been
\* painted after that and before the commit.
C5_CommitIsBarrier ==
    (pc \in {"update", "done"} /\ LastIs(log, "doupdate"))
    => /\ InvalidLeaves(windows) = {}
       /\ Len(log) < MaxLog
          => \A i \in Events(log, "WM_PAINT") :
                log[i].x # NULL
                => \A leaf \in MarkedBy(windows, log[i].x) :
                      \E j \in Events(log, "WM_PAINT") :
                          j > i /\ log[j].w = leaf

\* A commit after the paint handler of one leaf invalidated another leaf,
\* which was painted next.
C5_Witness ==
    /\ pc = "update"
    /\ LastIs(log, "doupdate")
    /\ Len(log) < MaxLog
    /\ \E i \in Events(log, "WM_PAINT") :
          /\ log[i].x # NULL
          /\ log[i].x # log[i].w
          /\ log[i].x \in MarkedBy(windows, log[i].x)
          /\ i + 1 \in Events(log, "WM_PAINT")
          /\ log[i + 1].w = log[i].x

\* ------------------------------------------------------------- C6
\* The leaves the hiding of a child of p is claimed to mark: those that
\* invalidating p's rectangle, clipped by the rectangles of p's ancestors,
\* marks below p, and none when an ancestor of p is invisible or nothing is
\* left of the rectangle.  This is what window_invalidate(p) marks.
ClaimedHideMarks(ws, p) == MarkedBy(ws, p)

\* C6: hiding a visible window w with a visible parent p marks invalid exactly
\* the visible leaves of p's subtree that intersect p's rectangle clipped by
\* the rectangles of all ancestors of p, and marks nothing when an ancestor of
\* p is invisible or the clipped region is empty.
C6_HideMarksClippedParent ==
    [][(/\ pc = "idle"
        /\ op'.name = "window_set_visible"
        /\ ~op'.flag
        /\ windows[op'.w].visible
        /\ windows[op'.w].parent # NULL
        /\ windows[windows[op'.w].parent].visible)
       => \A i \in Slots :
             windows'[i].invalid
             = (windows[i].invalid
                \/ i \in ClaimedHideMarks(windows', windows[op'.w].parent))
      ]_vars

\* ------------------------------------------------------------- C7
\* every window on the parent chain from leaf up to start, both included, is
\* visible
VisibleFrom(ws, start, leaf) ==
    /\ ws[leaf].visible
    /\ ws[start].visible
    /\ \A a \in Ancestors(ws, leaf) :
          start \in Ancestors(ws, a) => ws[a].visible

\* C7: in every reachable tree
\*  (a) window_invalidate(w), for w invisible or with an invisible ancestor,
\*      leaves every invalid flag and the aggregate flag as they are;
\*  (b) window_invalidate_rect started at a window marks no leaf that lies in
\*      the subtree of an invisible window at or below the start;
\*  (c) the search from the root returns no leaf that is invisible or has an
\*      invisible ancestor.
C7_InvisibleExcluded ==
    s_winmgr =>
    /\ \A w \in AliveIn(windows) :
          ~Shown(windows, w)
          => LET m == window_invalidate(Mem, w)
             IN  m.win = windows /\ m.invalid = wm_invalid
    /\ \A start \in AliveIn(windows), rc \in InputRects :
          LET m == window_invalidate_rect(Mem, start, rc)
          IN  \A leaf \in AliveIn(windows) :
                 (m.win[leaf].invalid /\ ~windows[leaf].invalid)
                 => VisibleFrom(windows, start, leaf)
    /\ LET w == find_invalid(windows, ROOT)
       IN  w # NULL => IsLeaf(windows, w) /\ Shown(windows, w)

\* window_invalidate has returned for a visible leaf on the screen, below an
\* invisible window, and has not marked it.
C7_Witness ==
    /\ Returned("window_invalidate")
    /\ IsLeaf(windows, op.w)
    /\ windows[op.w].visible
    /\ ~windows[op.w].invalid
    /\ ~rect_empty(windows[op.w].rc)
    /\ ~Shown(windows, op.w)

\* ------------------------------------------------------------- C8
SameSize(size, rc) ==
    rc.right - rc.left = size.cols /\ rc.bottom - rc.top = size.rows

\* the step of winmgr_resize that queries the terminal
QueryStep == pc = "resize_query" /\ pc' # "resize_query"

Quiet(l) == \A i \in 1..Len(l) : l[i].e = "ioctl"

\* C8: however many interrupts arrive, and wherever, the pipe never holds
\* more than one unread byte and the read of winmgr_resize finds a byte; and
\* a check that finds the terminal at the size of the root makes no geometry
\* or backend call.
C8_InterruptsCoalesce ==
    /\ [](pipe <= 1 /\ (pc = "resize_read" => pipe = 1))
    /\ [][(QueryStep /\ SameSize(term, windows[ROOT].rc))
          => Quiet(log') /\ windows' = windows]_vars

\* Two interrupts before the host runs the check: one byte to read.
C8_Witness ==
    /\ pc = "resize_read"
    /\ delivered >= 2
    /\ pipe = 1

\* ------------------------------------------------------------- C9
\* winmgr_resize has returned after finding the terminal at another size
Resized == Returned("winmgr_resize") /\ Events(log, "resizeterm") # {}

NewScreen == log[CHOOSE i \in Events(log, "resizeterm") : TRUE].rc

BackendOk == \A i \in 1..Len(log) : log[i].ok \/ log[i].e = "winmgr_update"

\* the aggregate invalid flag when winmgr_resize called winmgr_update
FlagAtUpdate == log[CHOOSE i \in Events(log, "winmgr_update") : TRUE].ok

\* C9: when winmgr_resize has found the terminal at another size, then on
\* return the root is the new full screen, a commit has been issued after the
\* geometry update and the aggregate invalid flag is false.  (Stated for the
\* runs in which every backend call succeeds.)
C9_ResizeCommits ==
    (Resized /\ BackendOk)
    => /\ rect_equal(windows[ROOT].rc, NewScreen)
       /\ LastIs(log, "doupdate")
       /\ ~wm_invalid

\* C9, amended: on return the aggregate invalid flag is false; the root is the
\* new full screen if its backend resize succeeded; and exactly one commit has
\* been issued, as the last action, if the aggregate flag was set after the
\* geometry update, which it is whenever the resize succeeded on a visible
\* root without children; with the flag clear there nothing is painted and no
\* commit is issued.
C9_ResizeCommitsIfInvalid ==
    Resized
    => /\ ~wm_invalid
       /\ BackendOk => rect_equal(windows[ROOT].rc, NewScreen)
       /\ IF FlagAtUpdate
          THEN Cardinality(Events(log, "doupdate")) = 1
               /\ LastIs(log, "doupdate")
          ELSE Events(log, "doupdate") = {} /\ Events(log, "WM_PAINT") = {}
       /\ (BackendOk /\ IsLeaf(windows, ROOT) /\ windows[ROOT].visible)
          => FlagAtUpdate

\* A resize that painted and committed at the new size.
C9_Witness ==
    /\ Resized
    /\ BackendOk
    /\ rect_equal(windows[ROOT].rc, NewScreen)
    /\ Events(log, "WM_PAINT") # {}
    /\ LastIs(log, "doupdate")

\* ------------------------------------------------------------- C10
\* the ioctl of the query step, as logged
Queried == log'[Len(log) + 1]

\* C10: a winmgr_resize that finds the terminal at the size of the root, or
\* whose query fails, makes no backend call, changes no rectangle and no
\* invalid flag, notifies no handler and commits nothing: every step of it
\* leaves the windows, the aggregate flag and the hook alone and logs nothing
\* but the query, and the query step returns.
C10_ResizeNoOp ==
    [][/\ (pc = "idle" /\ op'.name = "winmgr_resize")
          => UNCHANGED <<windows, wm_invalid, hook, log>>
       /\ pc \in {"resize_read", "resize_clear"}
          => UNCHANGED <<windows, wm_invalid, hook, log>>
       /\ (/\ QueryStep
           /\ \/ ~Queried.ok
              \/ SameSize([cols |-> Queried.rc.right,
                           rows |-> Queried.rc.bottom], windows[ROOT].rc))
          => /\ UNCHANGED <<windows, wm_invalid, hook>>
             /\ log' = Append(log, Queried)
             /\ Queried.e = "ioctl"
             /\ pc' = "done"
      ]_vars

\* winmgr_resize has returned from a terminal of the size of the root, after
\* draining the byte of an interrupt.
C10_Witness ==
    /\ Returned("winmgr_resize")
    /\ Len(log) = 1
    /\ log[1].e = "ioctl"
    /\ log[1].ok
    /\ SameSize(term, windows[ROOT].rc)
    /\ s_sigwinch_installed
    /\ ~s_pipe_signaled
    /\ pipe = 0
    /\ windows[ROOT].child # <<>>

\* ------------------------------------------------------------- C11
\* the step in which the host calls window_set_pos and it runs to its return
SetPosStep == pc = "idle" /\ op'.name = "window_set_pos"

\* C11: window_set_pos(w, r) with r the rectangle window_rect(w) returns
\* makes no backend call, changes no rectangle and no invalid flag, sends no
\* WM_POSCHANGED, asks for no wake-up, and returns success.
C11_SetPosUnchangedNoOp ==
    [][(SetPosStep /\ op'.rc = window_rect(windows, op'.w))
       => /\ op'.flag
          /\ log' = <<>>
          /\ windows' = windows
          /\ wm_invalid' = wm_invalid
          /\ ~hook']_vars

\* window_set_pos has returned from a call with the rectangle a clean child
\* on the screen already had.
C11_Witness ==
    /\ Returned("window_set_pos")
    /\ op.w # ROOT
    /\ op.rc = window_rect(windows, op.w)
    /\ ~rect_empty(windows[op.w].rc)
    /\ log = <<>>
    /\ ~wm_invalid

\* ------------------------------------------------------------- C12
\* r, relative to the parent of w, clipped to the root: taken to screen
\* coordinates, intersected with the root, and taken back
ClippedToRoot(ws, w, r) ==
    LET p == ws[w].parent
    IN  rect_offset(
            rect_intersect(rect_offset(r, ws[p].rc.left, ws[p].rc.top),
                           ws[ROOT].rc).rc,
            -ws[p].rc.left, -ws[p].rc.top)

\* the same rectangle, or both empty
SameRegion(a, b) == rect_equal(a, b) \/ (rect_empty(a) /\ rect_empty(b))

\* what the round trip is said to give
RoundTrip(ws, w, r) ==
    IF w = ROOT THEN rect_equal(window_rect(ws, w), r)
    ELSE SameRegion(window_rect(ws, w), ClippedToRoot(ws, w, r))

BackendFailed(l) == \E i \in 1..Len(l) : ~l[i].ok

\* C13: a window_set_pos in which a backend call (the resize before the
\* move, the move, the final resize) fails returns failure, leaves every
\* rectangle and every invalid flag as it was, sends no WM_POSCHANGED and asks
\* for no wake-up; and no backend call is made after the one that failed.
C13_SetPosFailureLeavesRect ==
    [][(SetPosStep /\ BackendFailed(log'))
       => /\ ~op'.flag
          /\ windows' = windows
          /\ wm_invalid' = wm_invalid
          /\ Events(log', "WM_POSCHANGED") = {}
          /\ ~hook'
          /\ \A i \in 1..Len(log') : ~log'[i].ok => i = Len(log')]_vars

\* window_set_pos has returned failure after a successful resize and move:
\* the final resize failed.
C13_Witness ==
    /\ Returned("window_set_pos")
    /\ ~op.flag
    /\ Len(log) = 3
    /\ log[1].e = "wresize" /\ log[1].ok
    /\ log[2].e = "mvwin" /\ log[2].ok
    /\ log[3].e = "wresize" /\ ~log[3].ok
    /\ ~rect_equal(window_rect(windows, op.w), op.rc)

\* ------------------------------------------------------------- C14
\* the step in which the host calls window_create and it runs to its return
CreateStep == pc = "idle" /\ op'.name = "window_create"

\* C14: a window_create whose newwin fails returns with the tree as it was:
\* no window more, every child list, every invalid flag and the aggregate
\* flag unchanged, no WM_CREATE sent and no wake-up asked for.
C14_CreateFailureLeavesTree ==
    [][(CreateStep /\ ~op'.flag)
       => /\ windows' = windows
          /\ wm_invalid' = wm_invalid
          /\ Events(log', "WM_CREATE") = {}
          /\ ~hook']_vars

\* window_create has returned from a failed newwin under a clean tree with
\* a child.
C14_Witness ==
    /\ Returned("window_create")
    /\ ~op.flag
    /\ LastIs(log, "newwin")
    /\ ~log[Len(log)].ok
    /\ windows[ROOT].child # <<>>
    /\ ~wm_invalid

\* ------------------------------------------------------------- C15
RECURSIVE PostOrder(_, _)
RECURSIVE PostOrderAll(_, _)

\* the subtree of w: children first, in the order of the child list, then w
PostOrder(ws, w) == PostOrderAll(ws, ws[w].child) \o <<w>>

PostOrderAll(ws, kids) ==
    IF kids = <<>> THEN <<>>
    ELSE PostOrder(ws, Head(kids)) \o PostOrderAll(ws, Tail(kids))

\* the WM_DESTROY notifications of l, in the order sent
Destroyed(l) == SelectSeq(l, LAMBDA ev : ev.e = "WM_DESTROY")

Without(q, w) == SelectSeq(q, LAMBDA c : c # w)

DestroyStep == pc = "idle" /\ op'.name = "window_destroy"

\* C15: window_destroy(w) sends WM_DESTROY to the subtree of w in post-order
\* with siblings in creation order; each window is in the child list of its
\* parent when its own WM_DESTROY is sent; and afterwards w is gone from the
\* child list of its parent, whose other children keep their order, the
\* subtree is freed and every other window is as it was.
C15_DestroyPostOrder ==
    [][DestroyStep
       => LET w    == op'.w
              p    == windows[w].parent
              sub  == PostOrder(windows, w)
              sent == Destroyed(log')
          IN  /\ Len(sent) = Len(sub)
              /\ \A i \in 1..Len(sub) :
                    /\ sent[i].w = sub[i]
                    /\ sent[i].x = windows[sub[i]].parent
                    /\ ~windows'[sub[i]].alive
              /\ windows'[p].child = Without(windows[p].child, w)
              /\ \A v \in Slots :
                    (\A i \in 1..Len(sub) : sub[i] # v)
                    => IF v = p
                       THEN windows'[v] =
                               [windows[v] EXCEPT !.child = Without(@, w)]
                       ELSE windows'[v] = windows[v]]_vars

\* window_destroy(A) has returned where A, a child of the root, had two
\* children X and Y: WM_DESTROY went to X, to Y, then to A.
C15_Witness ==
    /\ Returned("window_destroy")
    /\ LET sent == Destroyed(log)
       IN  /\ Len(sent) = 3
           /\ sent[1].x = op.w
           /\ sent[2].x = op.w
           /\ sent[1].w < sent[2].w
           /\ sent[3].w = op.w
           /\ sent[3].x = ROOT
    /\ ~windows[op.w].alive

\* window_destroy has returned for the middle one of three children: the
\* two others are left in their order.
C15_WitnessSiblings ==
    /\ Returned("window_destroy")
    /\ Len(windows[ROOT].child) = 2
    /\ windows[ROOT].child[1] < op.w
    /\ op.w < windows[ROOT].child[2]

\* ------------------------------------------------------------- C16
RECURSIVE LeafOrder(_, _)
RECURSIVE LeafOrderAll(_, _)

\* the leaves below w in a depth-first traversal that takes children in the
\* order of the child list and leaves out invisible subtrees
LeafOrder(ws, w) ==
    IF ~ws[w].visible THEN <<>>
    ELSE IF ws[w].child = <<>> THEN <<w>>
    ELSE LeafOrderAll(ws, ws[w].child)

LeafOrderAll(ws, kids) ==
    IF kids = <<>> THEN <<>>
    ELSE LeafOrder(ws, Head(kids)) \o LeafOrderAll(ws, Tail(kids))

InvalidInOrder(ws) == SelectSeq(LeafOrder(ws, ROOT), LAMBDA w : ws[w].invalid)

\* the windows that got WM_PAINT in l, in the order sent
Painted(l) ==
    LET sent == SelectSeq(l, LAMBDA ev : ev.e = "WM_PAINT")
    IN  [i \in 1..Len(sent) |-> sent[i].w]

RECURSIVE RunDrain(_)

\* winmgr_update run to its return with handlers that only draw
RunDrain(m) ==
    LET r == winmgr_update_step(m, NULL)
    IN  IF r.done THEN r.m ELSE RunDrain(r.m)

\* the state winmgr_init and the creation of a then b on the screen leave:
\* the aggregate flag set, the root visible with just the two children a then
\* b, both visible leaves and invalid, and no drain running
TwoFreshChildren(a, b) ==
    /\ pc = "idle"
    /\ s_winmgr
    /\ wm_invalid
    /\ windows[ROOT].visible
    /\ windows[ROOT].child = <<a, b>>
    /\ \A c \in {a, b} :
          /\ windows[c].child = <<>>
          /\ windows[c].visible
          /\ windows[c].invalid

\* C16: every step of a drain that paints, paints the first invalid leaf of
\* the depth-first order, and a drain commits only when that order holds no
\* invalid leaf; and a drain started with the root's two leaf children a then
\* b invalid sends exactly two WM_PAINT, to a then to b, none to the root,
\* and then commits once.
C16_PaintOrder ==
    /\ [][(pc = "update" /\ log' # log)
          => IF LastIs(log', "WM_PAINT")
             THEN /\ InvalidInOrder(windows) # <<>>
                  /\ log'[Len(log')].w = Head(InvalidInOrder(windows))
             ELSE /\ LastIs(log', "doupdate")
                  /\ InvalidInOrder(windows) = <<>>]_vars
    /\ [](\A a, b \in Slots :
            TwoFreshChildren(a, b)
            => LET l == RunDrain(Fresh).log
               IN  /\ Painted(l) = <<a, b>>
                   /\ Cardinality(Events(l, "doupdate")) = 1
                   /\ LastIs(l, "doupdate")
                   /\ Len(l) = 3)

\* The drain after winmgr_init and the creation of two children has
\* returned: WM_PAINT to the first, to the second, one commit, and the root
\* still carries the invalid flag winmgr_init gave it.
C16_Witness ==
    /\ Returned("winmgr_update")
    /\ Len(windows[ROOT].child) = 2
    /\ Painted(log) = windows[ROOT].child
    /\ Len(log) = 4
    /\ LastIs(log, "doupdate")
    /\ windows[ROOT].invalid

\* ------------------------------------------------------------- C17
\* Scenario B at the scale of the model: the visible root has just the two
\* children a and b, visible leaves side by side on the screen, everything
\* is painted and no drain is running
SideBySide(a, b) ==
    /\ pc = "idle"
    /\ s_winmgr
    /\ ~wm_invalid
    /\ windows[ROOT].visible
    /\ windows[ROOT].child = <<a, b>>
    /\ \A c \in {a, b} :
          /\ windows[c].child = <<>>
          /\ windows[c].visible
          /\ ~windows[c].invalid
          /\ ~rect_empty(windows[c].rc)
    /\ ~rect_intersect(windows[a].rc, windows[b].rc).ok

\* the step in which the host hides a
Hides(a) ==
    /\ op'.name = "window_set_visible"
    /\ op'.w = a
    /\ ~op'.flag

\* the log of the drain that follows the step
NextDrainLog ==
    RunDrain([win |-> windows', invalid |-> wm_invalid', hook |-> FALSE,
              log |-> <<>>]).log

\* C17: hiding a does not mark its sibling b; the next drain sends its one
\* WM_PAINT to the root and commits once.
C17_HideRepaintsRoot ==
    [][\A a, b \in Slots :
          (SideBySide(a, b) /\ Hides(a))
          => /\ ~windows'[b].invalid
             /\ Painted(NextDrainLog) = <<ROOT>>
             /\ Cardinality(Events(NextDrainLog, "doupdate")) = 1]_vars

\* C17, amended: hiding a marks its sibling b, the one visible leaf under the
\* root, and sets the aggregate flag, changing nothing else but the
\* visibility of a; the next drain sends its one WM_PAINT to b, none to the
\* root, and commits once, as its last action.
C17_HideRepaintsSibling ==
    [][\A a, b \in Slots :
          (SideBySide(a, b) /\ Hides(a))
          => /\ windows' = [windows EXCEPT ![a].visible = FALSE,
                                           ![b].invalid = TRUE]
             /\ wm_invalid'
             /\ hook'
             /\ Painted(NextDrainLog) = <<b>>
             /\ Cardinality(Events(NextDrainLog, "doupdate")) = 1
             /\ LastIs(NextDrainLog, "doupdate")]_vars

\* The drain after hiding the first of two children side by side has
\* returned: one WM_PAINT, to the second child, and one commit.
C17_Witness ==
    /\ Returned("winmgr_update")
    /\ Len(windows[ROOT].child) = 2
    /\ ~windows[windows[ROOT].child[1]].visible
    /\ ~rect_empty(windows[windows[ROOT].child[1]].rc)
    /\ ~rect_intersect(windows[windows[ROOT].child[1]].rc,
                       windows[windows[ROOT].child[2]].rc).ok
    /\ Painted(log) = <<windows[ROOT].child[2]>>
    /\ LastIs(log, "doupdate")

\* ------------------------------------------------------------- C18
\* C18: a winmgr_init whose sigaction fails returns NULL with everything
\* unwound: no manager, no window, no handler installed, and the pipe it
\* created closed.
C18_InitFailureUnwinds ==
    (Returned("winmgr_init") /\ op.w = NULL)
    => /\ ~s_winmgr
       /\ windows = NoWindows
       /\ ~wm_invalid
       /\ ~s_sigwinch_installed
       /\ Cardinality(Events(log, "close")) = Cardinality(Events(log, "pipe"))

\* ------------------------------------------------------------- C19
\* C19: winmgr_init with the manager in place returns the root and changes
\* nothing: tree, invalid flags, guard, pipe, installed handler; it makes no
\* call and asks for no wake-up.  winmgr_shutdown with no manager changes
\* nothing either.
C19_InitShutdownIdempotent ==
    [][/\ (pc = "idle" /\ op'.name = "winmgr_init" /\ s_winmgr)
          => /\ op'.w = ROOT
             /\ windows[ROOT].alive
             /\ log' = <<>>
             /\ ~hook'
             /\ UNCHANGED <<s_winmgr, windows, wm_invalid, Signals>>
       /\ (pc = "idle" /\ op'.name = "winmgr_shutdown" /\ ~s_winmgr)
          => /\ log' = <<>>
             /\ ~hook'
             /\ UNCHANGED <<s_winmgr, windows, wm_invalid, Signals>>
      ]_vars

\* winmgr_init has returned the root of a manager that was there, with a
\* child under the root and the byte of an interrupt waiting in the pipe.
C19_Witness ==
    /\ Returned("winmgr_init")
    /\ op.w = ROOT
    /\ log = <<>>
    /\ windows[ROOT].child # <<>>
    /\ s_pipe_signaled
    /\ pipe = 1

\* winmgr_shutdown has returned where there was no manager.
C19_WitnessShutdown ==
    /\ Returned("winmgr_shutdown")
    /\ log = <<>>
    /\ ~s_winmgr

\* ------------------------------------------------------------- C20
\* rc is not empty and lies inside bounds
Within(rc, bounds) ==
    /\ ~rect_empty(rc)
    /\ bounds.left <= rc.left /\ rc.right <= bounds.right
    /\ bounds.top <= rc.top /\ rc.bottom <= bounds.bottom

\* the rectangle a surface covers after the backend call ev, having covered
\* geom before: wresize keeps the origin, mvwin keeps the size
SurfaceAfter(geom, ev) ==
    IF ev.e = "wresize"
    THEN rect_set(geom.left, geom.top,
                  geom.left + ev.rc.right, geom.top + ev.rc.bottom)
    ELSE IF ev.e = "mvwin"
    THEN rect_set(ev.rc.left, ev.rc.top,
                  ev.rc.left + (geom.right - geom.left),
                  ev.rc.top + (geom.bottom - geom.top))
    ELSE geom

RECURSIVE Surfaces(_, _)

\* the rectangles a surface is asked to cover, call after call of l
Surfaces(geom, l) ==
    IF l = <<>> THEN <<>>
    ELSE <<SurfaceAfter(geom, Head(l))>>
         \o Surfaces(SurfaceAfter(geom, Head(l)), Tail(l))

\* C20: in a window_set_pos of a window other than the root that changes
\* origin and size, from a rectangle inside the root to one whose clipped
\* form is inside the root, the surface, which covers the old rectangle at
\* the start, is asked by every backend call in turn (the resize before the
\* move, the move, the final resize) to cover a rectangle inside the root.
C20_SurfaceStaysInRoot ==
    [][(SetPosStep /\ op'.w # ROOT)
       => LET w    == op'.w
              p    == windows[w].parent
              cur  == windows[w].rc
              root == windows[ROOT].rc
              new  == rect_intersect(
                          rect_offset(op'.rc, windows[p].rc.left,
                                      windows[p].rc.top), root).rc
              geoms == Surfaces(cur, log')
          IN  (/\ Within(cur, root)
               /\ Within(new, root)
               /\ new.left # cur.left \/ new.top # cur.top
               /\ \/ new.right - new.left # cur.right - cur.left
                  \/ new.bottom - new.top # cur.bottom - cur.top)
              => \A i \in 1..Len(geoms) : Within(geoms[i], root)]_vars

\* ------------------------------------------------------------- C21
\* the window a window_create that has returned made, NULL if it made none
Created ==
    IF Events(log, "WM_CREATE") = {} THEN NULL
    ELSE log[CHOOSE i \in Events(log, "WM_CREATE") : TRUE].w

\* the rectangle of the screen newwin was asked for
NewwinRect == log[CHOOSE i \in Events(log, "newwin") : TRUE].rc

\* C21: after a window_create that made a window with a rectangle on the
\* screen, the surface newwin was asked for has the size and the origin of
\* the rectangle stored in the window.
C21_SurfaceIsClippedRect ==
    (Returned("window_create") /\ Created # NULL
        /\ ~rect_empty(windows[Created].rc))
    => rect_equal(NewwinRect, windows[Created].rc)

\* ------------------------------------------------------------- C22
\* rc covers no cell outside bounds
Contained(rc, bounds) ==
    \/ rect_empty(rc)
    \/ /\ bounds.left <= rc.left /\ rc.right <= bounds.right
       /\ bounds.top <= rc.top /\ rc.bottom <= bounds.bottom

\* C22: in every reachable state the rectangle of every window other than
\* the root lies inside the rectangle of the root.
C22_ContainedInRoot ==
    \A w \in AliveIn(windows) \ {ROOT} :
       Contained(windows[w].rc, windows[ROOT].rc)

\* ------------------------------------------------------------- C23
\* an interrupt has been handled that no winmgr_resize has cleared the
\* guard after
InterruptPending == s_sigwinch_installed /\ delivered > 0

\* the step of the signal handler
HandlerStep ==
    /\ s_sigwinch_installed
    /\ UNCHANGED <<pc, op, log, windows>>
    /\ <<term, pipe, s_pipe_signaled, delivered>>
          # <<term', pipe', s_pipe_signaled', delivered'>>

\* every interrupt leaves the descriptor readable with the guard set, or
\* falls between the read and the clearing of the guard of a winmgr_resize
\* that has its query still to make
InterruptSeen ==
    [][HandlerStep
       => \/ pipe' >= 1 /\ s_pipe_signaled'
          \/ pc' = "resize_clear" /\ s_pipe_signaled']_vars

\* winmgr_resize has made its query
Queried23 == op.name = "winmgr_resize" /\ pc \in {"done", "update"}

C24_DestroyInvalidatesNothing ==
    [][DestroyStep
       => /\ \A v \in AliveIn(windows') :
                 windows'[v].invalid = windows[v].invalid
          /\ wm_invalid' = wm_invalid
          /\ ~hook']_vars

\* window_destroy has taken the last child of the root, which had been left
\* invalid when it got the child, while the manager has nothing invalid.
C24_Witness ==
    /\ Returned("window_destroy")
    /\ IsLeaf(windows, ROOT)
    /\ windows[ROOT].visible
    /\ windows[ROOT].invalid
    /\ ~wm_invalid

\* ------------------------------------------------------------- C25
\* C25: window_set_pos(w, r) changes no stored rectangle but that of w: every
\* other window, the descendants of w among them, is where it was on the
\* screen, so window_rect of each child of w shifts by the opposite of the
\* move of the origin of w.
C25_SetPosMovesOnlyItself ==
    [][SetPosStep
       => LET w  == op'.w
              dx == windows'[w].rc.left - windows[w].rc.left
              dy == windows'[w].rc.top - windows[w].rc.top
          IN  /\ \A v \in Slots \ {w} : windows'[v].rc = windows[v].rc
              /\ \A c \in AliveIn(windows) :
                    windows[c].parent = w
                    => rect_equal(window_rect(windows', c),
                                  rect_offset(window_rect(windows, c),
                                              -dx, -dy))]_vars

\* window_set_pos has moved the origin of a window other than the root and a
\* child of it, not empty, now lies wholly outside it.
C25_Witness ==
    /\ Returned("window_set_pos")
    /\ op.flag
    /\ op.w # ROOT
    /\ \E i \in Events(log, "WM_POSCHANGED") :
          log[i].rc.left # log[i].rc2.left
    /\ \E c \in AliveIn(windows) :
          /\ windows[c].parent = op.w
          /\ ~rect_empty(windows[c].rc)
          /\ ~rect_intersect(windows[c].rc, windows[op.w].rc).ok

\* ------------------------------------------------------------- C26
\* the reported rectangles that have a non-zero end row or end column
Counted(rs) == {rect \in rs : rect.end_row # 0 \/ rect.end_col # 0}

BoundingBox(rs) ==
    IF rs = {} THEN VTermRectZero
    ELSE [start_row |-> CHOOSE x \in {rect.start_row : rect \in rs} :
                           \A rect \in rs : x <= rect.start_row,
          start_col |-> CHOOSE x \in {rect.start_col : rect \in rs} :
                           \A rect \in rs : x <= rect.start_col,
          end_row   |-> CHOOSE x \in {rect.end_row : rect \in rs} :
                           \A rect \in rs : x >= rect.end_row,
          end_col   |-> CHOOSE x \in {rect.end_col : rect \in rs} :
                           \A rect \in rs : x >= rect.end_col]

DamageEmpty(tw) == tw.damage_rect.end_row = 0 /\ tw.damage_rect.end_col = 0

DrawStep == drawn'.called

DamageIsBoundingBox == twin.damage_rect = BoundingBox(Counted(reported))

\* C26: the damage the renderer has accumulated is the bounding box of the
\* rectangles reported since the last termwin_draw that have a non-zero end
\* row or end column; termwin_draw with damage that is not empty leaves it
\* empty and returns 1, and with empty damage it draws nothing, changes
\* nothing and returns 0.
C26_DamageMerging ==
    /\ []DamageIsBoundingBox
    /\ [][DrawStep
          => IF DamageEmpty(twin)
             THEN /\ twin' = twin
                  /\ drawn'.ret = 0
                  /\ drawn'.cells = {}
                  /\ ~drawn'.border
             ELSE /\ twin'.damage_rect = VTermRectZero
                  /\ drawn'.ret = 1]_vars

====
